---- MODULE Spec2Model ----
(***************************************************************************)
(* Model of the luxewash request handlers (src/app.py): the users,         *)
(* bookings, feedback and shops tables, the per-client Flask session and   *)
(* one action per route.  A handler runs to completion within one action;  *)
(* `last' records the request that just finished and its response.         *)
(* The database driver is modelled by the meaning of the SQL statement it  *)
(* is given (is_postgres only picks the placeholder style of one and the   *)
(* same statement), or by a failure: get_db_connection returning None      *)
(* ("connect") or the statement raising while it executes ("execute").     *)
(***************************************************************************)
EXTENDS Integers, Sequences, FiniteSets, TLC

VARIABLES users, nextUserId, bookings, nextBookingId, feedbackRows,
          nextFeedbackId, shops, nextShopId, session, last

vars == <<users, nextUserId, bookings, nextBookingId, feedbackRows,
          nextFeedbackId, shops, nextShopId, session, last>>

\* ------------------------------------------------------------------ bounds
MaxBookings == 2
MaxFeedback == 11
MaxShops == 2

\* ------------------------------------------------------------------ inputs
Null == "NULL"
Clients == {"c1"}
Idents == {"a@x.com", "111"}
Passwords == {"p", "wrong"}
Salts == {"s1"}
Faults == {"none", "connect", "execute"}

\* three accounts (the second's phone is the first's email, the third shares
\* an email with the second and a phone with the first) and two incomplete forms
SignupForms ==
    {[name |-> "A", email |-> "a@x.com", phone |-> "111", password |-> "p"],
     [name |-> "A", email |-> "111", phone |-> "a@x.com", password |-> "wrong"],
     [name |-> "A", email |-> "111", phone |-> "111", password |-> "wrong"]}
    \cup {[email |-> "a@x.com", phone |-> "111", password |-> "p"],
          [name |-> "A", email |-> "a@x.com", phone |-> "111", password |-> ""]}

SigninForms ==
    {[login |-> i, password |-> w] : i \in Idents, w \in Passwords}
    \cup {[login |-> "a@x.com"], [login |-> "", password |-> "p"]}

BookingForms ==
    {[name |-> "A", phone |-> "111", email |-> "a@x.com", carType |-> "SUV",
      serviceType |-> "Wash", date |-> "d1", time |-> "t1", address |-> "addr"],
     [name |-> "B", carType |-> "Sedan"]}

StatusBodies == {[k \in {} |-> ""], [status |-> ""], [status |-> "Done"]}

OrderIds == 1..(MaxBookings + 1)

FeedbackForms == {[rating |-> "5", text |-> "good"],
                  [name |-> "Bob", rating |-> "4", text |-> "ok"]}

ShopForms == {[shopName |-> "S", ownerName |-> "O", email |-> "s@x.com",
               phone |-> "222", address |-> "addr", city |-> "C",
               pincode |-> "1", services |-> "wash"]}

\* ------------------------------------------------------------------ helpers
\* dict.get(key) / dict.get(key, default)
GetOr(d, k, dflt) == IF k \in DOMAIN d THEN d[k] ELSE dflt
Get(d, k) == GetOr(d, k, Null)

\* Python truthiness of an optional string: None and "" are falsy
Falsy(v) == v = Null \/ v = ""

\* werkzeug generate_password_hash / check_password_hash: salted one-way hash
Digest(salt, pw) == <<"digest", salt, pw>>
generate_password_hash(pw, salt) ==
    [method |-> "scrypt", salt |-> salt, digest |-> Digest(salt, pw)]
check_password_hash(h, pw) == h.digest = Digest(h.salt, pw)

Range(s) == {s[i] : i \in 1..Len(s)}

\* rows of a table with the given ids removed / kept, in stored order
RECURSIVE Filter(_, _)
Filter(rows, keep) ==
    IF rows = <<>> THEN <<>>
    ELSE IF Head(rows).id \in keep
         THEN <<Head(rows)>> \o Filter(Tail(rows), keep)
         ELSE Filter(Tail(rows), keep)

MaxId(ids) == CHOOSE m \in ids : \A n \in ids : n <= m

\* ORDER BY id DESC
RECURSIVE OrderByIdDesc(_)
OrderByIdDesc(rows) ==
    IF rows = <<>> THEN <<>>
    ELSE LET m == MaxId({r.id : r \in Range(rows)})
         IN  Filter(rows, {m}) \o
             OrderByIdDesc(Filter(rows, {r.id : r \in Range(rows)} \ {m}))

FeedbackLimit == 10

\* LIMIT n
Limit(rows, n) == IF Len(rows) <= n THEN rows ELSE SubSeq(rows, 1, n)

\* the session dict of a client: <<>> has no "user" key, <<u>> maps "user" to u
HasUser(c) == Len(session[c]) > 0
SessionUser(c) == session[c][1]

\* the finished request and its response
Resp(op, c, form, id, fault, code, error, user, rows, handle) ==
    [op |-> op, client |-> c, form |-> form, id |-> id, fault |-> fault,
     code |-> code, error |-> error, user |-> user, rows |-> rows,
     handle |-> handle]

NoForm == [k \in {} |-> ""]

Init ==
    /\ users = <<>>
    /\ nextUserId = 1
    /\ bookings = <<>>
    /\ nextBookingId = 1
    /\ feedbackRows = <<>>
    /\ nextFeedbackId = 1
    /\ shops = <<>>
    /\ nextShopId = 1
    /\ session = [c \in Clients |-> <<>>]
    /\ last = Resp("init", "c1", NoForm, 0, "none", 0, "", <<>>, <<>>, "none")

\* ------------------------------------------------------------------ SQL
\* a schema in which only users.email is UNIQUE
UniqueViolation_EmailOnly(email, phone) ==
    \E u \in Range(users) : u.email = email

\* users.email UNIQUE, users.phone UNIQUE
UniqueViolation(email, phone) ==
    \E u \in Range(users) : u.email = email \/ u.phone = phone

\* SELECT * FROM users WHERE email = ? OR phone = ?
SelectUsersByLogin(login) ==
    {u \in Range(users) : u.email = login \/ u.phone = login}

\* cur.fetchone(): one row of the result (the statement has no ORDER BY), or None
FetchOne(rows) == IF rows = {} THEN {<<>>} ELSE {<<r>> : r \in rows}

\* the insert reading the form by column names instead of the form's keys
BookingRow_ColumnKeys(id, user_id, f) ==
    [id |-> id, user_id |-> user_id,
     name |-> Get(f, "name"), phone |-> Get(f, "phone"), email |-> Get(f, "email"),
     car_type |-> Get(f, "car_type"), service_type |-> Get(f, "service_type"),
     date |-> Get(f, "date"), time |-> Get(f, "time"),
     address |-> Get(f, "address"), status |-> "Pending"]

\* INSERT INTO bookings (user_id, name, ..., address); status DEFAULT 'Pending'
BookingRow(id, user_id, f) ==
    [id |-> id, user_id |-> user_id,
     name |-> Get(f, "name"), phone |-> Get(f, "phone"), email |-> Get(f, "email"),
     car_type |-> Get(f, "carType"), service_type |-> Get(f, "serviceType"),
     date |-> Get(f, "date"), time |-> Get(f, "time"),
     address |-> Get(f, "address"), status |-> "Pending"]

\* the rows of table tbl WHERE user_id = ? ORDER BY id DESC
OrdersOf(tbl, user_id) ==
    OrderByIdDesc(Filter(tbl,
        {b.id : b \in {r \in Range(tbl) : r.user_id = user_id}}))

\* the listing without its WHERE user_id = ? clause
SelectOrders_AllUsers(user_id) == OrderByIdDesc(bookings)

\* SELECT * FROM bookings WHERE user_id = ? ORDER BY id DESC
SelectOrders(user_id) == OrdersOf(bookings, user_id)

\* the match without its AND user_id = ? clause
MatchOrder_AnyOwner(order_id, user_id) ==
    {b.id : b \in {r \in Range(bookings) : r.id = order_id}}

\* ids of the rows matched by WHERE id = ? AND user_id = ?
MatchOrder(order_id, user_id) ==
    {b.id : b \in {r \in Range(bookings) :
                     r.id = order_id /\ r.user_id = user_id}}

\* DELETE FROM bookings WHERE id = ? AND user_id = ?
DeleteOrder(order_id, user_id) ==
    Filter(bookings, {b.id : b \in Range(bookings)} \ MatchOrder(order_id, user_id))

\* the update without its id = ? clause: every booking of the user is updated
UpdateOrder_AllOfUser(new_status, order_id, user_id) ==
    [i \in 1..Len(bookings) |->
        IF bookings[i].user_id = user_id
        THEN [bookings[i] EXCEPT !.status = new_status]
        ELSE bookings[i]]

\* UPDATE bookings SET status = ? WHERE id = ? AND user_id = ?
UpdateOrder(new_status, order_id, user_id) ==
    [i \in 1..Len(bookings) |->
        IF bookings[i].id \in MatchOrder(order_id, user_id)
        THEN [bookings[i] EXCEPT !.status = new_status]
        ELSE bookings[i]]

\* the listing with LIMIT applied before ORDER BY
SelectFeedback_LimitFirst == OrderByIdDesc(Limit(feedbackRows, FeedbackLimit))

\* SELECT * FROM feedback ORDER BY id DESC LIMIT 10
SelectFeedback == Limit(OrderByIdDesc(feedbackRows), FeedbackLimit)

\* ------------------------------------------------------------------ auth
\* POST /api/signup
Signup(c, f) ==
    LET name == Get(f, "name")
        email == Get(f, "email")
        phone == Get(f, "phone")
        password == Get(f, "password")
    IN
    IF Falsy(name) \/ Falsy(email) \/ Falsy(phone) \/ Falsy(password)
    THEN /\ last' = Resp("signup", c, f, 0, "none", 400,
                         "Missing required fields", <<>>, <<>>, "none")
         /\ UNCHANGED <<users, nextUserId, bookings, nextBookingId, feedbackRows,
                        nextFeedbackId, shops, nextShopId, session>>
    ELSE \E fault \in Faults, salt \in Salts :
         /\ UNCHANGED <<bookings, nextBookingId, feedbackRows, nextFeedbackId,
                        shops, nextShopId, session>>
         /\ CASE fault = "connect" ->
                 /\ last' = Resp("signup", c, f, 0, fault, 500,
                                 "Internal Server Error", <<>>, <<>>, "none")
                 /\ UNCHANGED <<users, nextUserId>>
              [] fault = "execute" ->
                 /\ last' = Resp("signup", c, f, 0, fault, 500,
                                 "store error", <<>>, <<>>, "closed")
                 /\ UNCHANGED <<users, nextUserId>>
              [] fault = "none" /\ UniqueViolation(email, phone) ->
                 /\ last' = Resp("signup", c, f, 0, fault, 409,
                                 "Email or phone number already registered.",
                                 <<>>, <<>>, "closed")
                 /\ UNCHANGED <<users, nextUserId>>
              [] OTHER ->
                 /\ users' = Append(users,
                        [id |-> nextUserId, name |-> name, email |-> email,
                         phone |-> phone,
                         password |-> generate_password_hash(password, salt)])
                 /\ nextUserId' = nextUserId + 1
                 /\ last' = Resp("signup", c, f, 0, fault, 201, "",
                                 <<>>, <<>>, "closed")

\* POST /api/signin
Signin(c, f) ==
    LET login_identifier == Get(f, "login")
        password == Get(f, "password")
    IN
    /\ UNCHANGED <<users, nextUserId, bookings, nextBookingId, feedbackRows,
                   nextFeedbackId, shops, nextShopId>>
    /\ IF Falsy(login_identifier) \/ Falsy(password)
       THEN /\ last' = Resp("signin", c, f, 0, "none", 400,
                            "Missing login credentials", <<>>, <<>>, "none")
            /\ UNCHANGED session
       ELSE \E fault \in Faults :
            CASE fault = "connect" ->
                 /\ last' = Resp("signin", c, f, 0, fault, 500,
                                 "Internal Server Error", <<>>, <<>>, "none")
                 /\ UNCHANGED session
              [] fault = "execute" ->
                 \* the exception leaves the handler before conn.close()
                 /\ last' = Resp("signin", c, f, 0, fault, 500,
                                 "Internal Server Error", <<>>, <<>>, "open")
                 /\ UNCHANGED session
              [] OTHER ->
                 \E user \in FetchOne(SelectUsersByLogin(login_identifier)) :
                    IF Len(user) > 0 /\ check_password_hash(user[1].password, password)
                    THEN /\ session' = [session EXCEPT ![c] = user]
                         /\ last' = Resp("signin", c, f, 0, fault, 200, "",
                                         user, <<>>, "closed")
                    ELSE /\ last' = Resp("signin", c, f, 0, fault, 401,
                                         "Invalid credentials", <<>>, <<>>, "closed")
                         /\ UNCHANGED session

\* POST /api/logout
Logout(c) ==
    /\ session' = [session EXCEPT ![c] = <<>>]
    /\ last' = Resp("logout", c, NoForm, 0, "none", 200, "", <<>>, <<>>, "none")
    /\ UNCHANGED <<users, nextUserId, bookings, nextBookingId, feedbackRows,
                   nextFeedbackId, shops, nextShopId>>

\* GET /api/session
CheckSession(c) ==
    /\ last' = Resp("check_session", c, NoForm, 0, "none", 200, "",
                    session[c], <<>>, "none")
    /\ UNCHANGED <<users, nextUserId, bookings, nextBookingId, feedbackRows,
                   nextFeedbackId, shops, nextShopId, session>>

\* ------------------------------------------------------------------ bookings
\* the body of booking() once the session check has passed
InsertBooking(c, f, user_id) ==
    \E fault \in Faults :
       CASE fault = "connect" ->
            /\ last' = Resp("booking", c, f, 0, fault, 500,
                            "Internal Server Error", <<>>, <<>>, "none")
            /\ UNCHANGED <<bookings, nextBookingId>>
         [] fault = "execute" ->
            /\ last' = Resp("booking", c, f, 0, fault, 500, "store error",
                            <<>>, <<>>, "closed")
            /\ UNCHANGED <<bookings, nextBookingId>>
         [] OTHER ->
            /\ nextBookingId <= MaxBookings
            /\ bookings' = Append(bookings, BookingRow(nextBookingId, user_id, f))
            /\ nextBookingId' = nextBookingId + 1
            /\ last' = Resp("booking", c, f, 0, fault, 201, "",
                            <<>>, <<>>, "closed")

\* a booking() that accepts requests without a session
Booking_Anonymous(c, f) ==
    /\ UNCHANGED <<users, nextUserId, feedbackRows, nextFeedbackId, shops,
                   nextShopId, session>>
    /\ InsertBooking(c, f, IF HasUser(c) THEN SessionUser(c).id ELSE 0)

\* POST /api/booking
Booking(c, f) ==
    /\ UNCHANGED <<users, nextUserId, feedbackRows, nextFeedbackId, shops,
                   nextShopId, session>>
    /\ IF ~HasUser(c)
       THEN /\ last' = Resp("booking", c, f, 0, "none", 401, "Unauthorized",
                            <<>>, <<>>, "none")
            /\ UNCHANGED <<bookings, nextBookingId>>
       ELSE InsertBooking(c, f, SessionUser(c).id)

\* GET /api/orders
GetOrders(c) ==
    /\ UNCHANGED <<users, nextUserId, bookings, nextBookingId, feedbackRows,
                   nextFeedbackId, shops, nextShopId, session>>
    /\ IF ~HasUser(c)
       THEN last' = Resp("get_orders", c, NoForm, 0, "none", 401, "Unauthorized",
                         <<>>, <<>>, "none")
       ELSE \E fault \in Faults :
            CASE fault = "connect" ->
                 last' = Resp("get_orders", c, NoForm, 0, fault, 500,
                              "Internal Server Error", <<>>, <<>>, "none")
              [] fault = "execute" ->
                 last' = Resp("get_orders", c, NoForm, 0, fault, 500,
                              "Internal Server Error", <<>>, <<>>, "open")
              [] OTHER ->
                 last' = Resp("get_orders", c, NoForm, 0, fault, 200, "", <<>>,
                              SelectOrders(SessionUser(c).id), "closed")

\* DELETE /api/orders/<order_id>
CancelOrder(c, order_id) ==
    /\ UNCHANGED <<users, nextUserId, nextBookingId, feedbackRows,
                   nextFeedbackId, shops, nextShopId, session>>
    /\ IF ~HasUser(c)
       THEN /\ last' = Resp("cancel_order", c, NoForm, order_id, "none", 401,
                            "Unauthorized", <<>>, <<>>, "none")
            /\ UNCHANGED bookings
       ELSE \E fault \in Faults :
            LET user_id == SessionUser(c).id IN
            CASE fault = "connect" ->
                 /\ last' = Resp("cancel_order", c, NoForm, order_id, fault, 500,
                                 "Internal Server Error", <<>>, <<>>, "none")
                 /\ UNCHANGED bookings
              [] fault = "execute" ->
                 /\ last' = Resp("cancel_order", c, NoForm, order_id, fault, 500,
                                 "store error", <<>>, <<>>, "closed")
                 /\ UNCHANGED bookings
              [] fault = "none" /\ Len(DeleteOrder(order_id, user_id)) = Len(bookings) ->
                 \* cur.rowcount == 0
                 /\ last' = Resp("cancel_order", c, NoForm, order_id, fault, 404,
                                 "Order not found or not owned by user",
                                 <<>>, <<>>, "closed")
                 /\ UNCHANGED bookings
              [] OTHER ->
                 /\ bookings' = DeleteOrder(order_id, user_id)
                 /\ last' = Resp("cancel_order", c, NoForm, order_id, fault, 200,
                                 "", <<>>, <<>>, "closed")

\* PUT /api/orders/<order_id>/status
UpdateOrderStatus(c, order_id, data) ==
    LET new_status == Get(data, "status") IN
    /\ UNCHANGED <<users, nextUserId, nextBookingId, feedbackRows,
                   nextFeedbackId, shops, nextShopId, session>>
    /\ IF ~HasUser(c)
       THEN /\ last' = Resp("update_order_status", c, data, order_id, "none", 401,
                            "Unauthorized", <<>>, <<>>, "none")
            /\ UNCHANGED bookings
       ELSE IF Falsy(new_status)
       THEN /\ last' = Resp("update_order_status", c, data, order_id, "none", 400,
                            "New status not provided", <<>>, <<>>, "none")
            /\ UNCHANGED bookings
       ELSE \E fault \in Faults :
            LET user_id == SessionUser(c).id IN
            CASE fault = "connect" ->
                 /\ last' = Resp("update_order_status", c, data, order_id, fault,
                                 500, "Internal Server Error", <<>>, <<>>, "none")
                 /\ UNCHANGED bookings
              [] fault = "execute" ->
                 /\ last' = Resp("update_order_status", c, data, order_id, fault,
                                 500, "store error", <<>>, <<>>, "closed")
                 /\ UNCHANGED bookings
              [] fault = "none" /\ MatchOrder(order_id, user_id) = {} ->
                 \* cur.rowcount == 0
                 /\ last' = Resp("update_order_status", c, data, order_id, fault,
                                 404, "Order not found or not owned by user",
                                 <<>>, <<>>, "closed")
                 /\ UNCHANGED bookings
              [] OTHER ->
                 /\ bookings' = UpdateOrder(new_status, order_id, user_id)
                 /\ last' = Resp("update_order_status", c, data, order_id, fault,
                                 200, "", <<>>, <<>>, "closed")

\* ------------------------------------------------------------------ feedback, shops
\* POST /api/feedback
FeedbackPost(c, f) ==
    /\ UNCHANGED <<users, nextUserId, bookings, nextBookingId, shops,
                   nextShopId, session>>
    /\ \E fault \in Faults :
       CASE fault = "connect" ->
            /\ last' = Resp("feedback_post", c, f, 0, fault, 500,
                            "Internal Server Error", <<>>, <<>>, "none")
            /\ UNCHANGED <<feedbackRows, nextFeedbackId>>
         [] fault = "execute" ->
            /\ last' = Resp("feedback_post", c, f, 0, fault, 500, "store error",
                            <<>>, <<>>, "closed")
            /\ UNCHANGED <<feedbackRows, nextFeedbackId>>
         [] OTHER ->
            /\ nextFeedbackId <= MaxFeedback
            /\ feedbackRows' = Append(feedbackRows,
                   [id |-> nextFeedbackId, name |-> GetOr(f, "name", "Anonymous"),
                    rating |-> Get(f, "rating"), text |-> Get(f, "text")])
            /\ nextFeedbackId' = nextFeedbackId + 1
            /\ last' = Resp("feedback_post", c, f, 0, fault, 201, "",
                            <<>>, <<>>, "closed")

\* GET /api/feedback
FeedbackGet(c) ==
    /\ UNCHANGED <<users, nextUserId, bookings, nextBookingId, feedbackRows,
                   nextFeedbackId, shops, nextShopId, session>>
    /\ \E fault \in Faults :
       CASE fault = "connect" ->
            last' = Resp("feedback_get", c, NoForm, 0, fault, 500,
                         "Internal Server Error", <<>>, <<>>, "none")
         [] fault = "execute" ->
            last' = Resp("feedback_get", c, NoForm, 0, fault, 500,
                         "Internal Server Error", <<>>, <<>>, "open")
         [] OTHER ->
            last' = Resp("feedback_get", c, NoForm, 0, fault, 200, "", <<>>,
                         SelectFeedback, "closed")

\* POST /api/shop/register
RegisterShop(c, f) ==
    /\ UNCHANGED <<users, nextUserId, bookings, nextBookingId, feedbackRows,
                   nextFeedbackId, session>>
    /\ \E fault \in Faults :
       CASE fault = "connect" ->
            /\ last' = Resp("register_shop", c, f, 0, fault, 500,
                            "Internal Server Error", <<>>, <<>>, "none")
            /\ UNCHANGED <<shops, nextShopId>>
         [] fault = "execute" ->
            /\ last' = Resp("register_shop", c, f, 0, fault, 500, "store error",
                            <<>>, <<>>, "closed")
            /\ UNCHANGED <<shops, nextShopId>>
         [] OTHER ->
            /\ nextShopId <= MaxShops
            /\ shops' = Append(shops,
                   [id |-> nextShopId, shop_name |-> Get(f, "shopName"),
                    owner_name |-> Get(f, "ownerName"), email |-> Get(f, "email"),
                    phone |-> Get(f, "phone"), address |-> Get(f, "address"),
                    city |-> Get(f, "city"), pincode |-> Get(f, "pincode"),
                    services |-> Get(f, "services")])
            /\ nextShopId' = nextShopId + 1
            /\ last' = Resp("register_shop", c, f, 0, fault, 201, "",
                            <<>>, <<>>, "closed")

\* ------------------------------------------------------------------ specifications
\* account and booking routes
Next ==
    \/ \E c \in Clients, f \in SignupForms : Signup(c, f)
    \/ \E c \in Clients, f \in SigninForms : Signin(c, f)
    \/ \E c \in Clients : Logout(c)
    \/ \E c \in Clients : CheckSession(c)
    \/ \E c \in Clients, f \in BookingForms : Booking(c, f)
    \/ \E c \in Clients : GetOrders(c)
    \/ \E c \in Clients, id \in OrderIds : CancelOrder(c, id)
    \/ \E c \in Clients, id \in OrderIds, d \in StatusBodies :
          UpdateOrderStatus(c, id, d)

Spec == Init /\ [][Next]_vars

\* the routes that need no session; they touch only the feedback and shops
\* tables, which no account or booking route reads or writes
NextPublic ==
    \/ \E f \in FeedbackForms : FeedbackPost("c1", f)
    \/ FeedbackGet("c1")
    \/ \E f \in ShopForms : RegisterShop("c1", f)

SpecPublic == Init /\ [][NextPublic]_vars

\* ------------------------------------------------------------------ properties
\* the request that has just finished
LastUserId == SessionUser(last.client).id
Present(f, k) == ~Falsy(Get(f, k))
OwnedBy(order_id, user_id) ==
    \E b \in Range(bookings) : b.id = order_id /\ b.user_id = user_id
Foreign(order_id, user_id) ==
    \E b \in Range(bookings) : b.id = order_id /\ b.user_id # user_id
Missing(order_id) == \A b \in Range(bookings) : b.id # order_id

\* C1: a successful list_orders in a session of user A returns only bookings
\* owned by A and returns every booking A currently owns.
C1_ListOrdersOwnOnly ==
    (last.op = "get_orders" /\ last.code = 200) =>
        /\ HasUser(last.client)
        /\ \A i \in 1..Len(last.rows) : last.rows[i].user_id = LastUserId
        /\ \A b \in Range(bookings) :
              b.user_id = LastUserId => b \in Range(last.rows)

C1_Witness ==
    /\ last.op = "get_orders" /\ last.code = 200
    /\ Len(last.rows) > 0
    /\ \E b \in Range(bookings) : b.user_id # LastUserId

\* C2: for a logged-in user, cancel_order(id) and update_status(id, s) with a
\* non-empty s on a booking owned by another user answer exactly as on an id
\* that does not exist (404 with the same message when the store executes the
\* statement, 500 when it fails) and leave the bookings table unchanged.
C2_NotOwnedAsNotFound ==
    [][ ( /\ last'.op \in {"cancel_order", "update_order_status"}
          /\ HasUser(last'.client)
          /\ last'.op = "update_order_status" => Present(last'.form, "status")
          /\ \/ Foreign(last'.id, SessionUser(last'.client).id)
             \/ Missing(last'.id) )
        => /\ bookings' = bookings
           /\ last'.code = IF last'.fault = "none" THEN 404 ELSE 500
           /\ last'.fault = "none" =>
                 last'.error = "Order not found or not owned by user" ]_vars

C2_Witness ==
    /\ last.op \in {"cancel_order", "update_order_status"}
    /\ last.code = 404
    /\ HasUser(last.client)
    /\ Foreign(last.id, LastUserId)

\* C3: when identifier and password are supplied and the store answers, signin
\* succeeds iff some stored user's email or phone equals the identifier and
\* the password verifies against that user's hash; otherwise it yields 401.
C3_SigninIff ==
    ( /\ last.op = "signin" /\ last.fault = "none"
      /\ Present(last.form, "login") /\ Present(last.form, "password") )
    => /\ last.code \in {200, 401}
       /\ last.code = 200 <=>
             \E u \in Range(users) :
                /\ u.email = last.form.login \/ u.phone = last.form.login
                /\ check_password_hash(u.password, last.form.password)

\* C4: a signup whose email or phone equals that of a stored user yields 409
\* (500 if the store fails) and leaves the users table as it was; no two
\* stored users share an email and no two share a phone.
UniqueUsers ==
    \A i, j \in 1..Len(users) :
        i # j => /\ users[i].email # users[j].email
                 /\ users[i].phone # users[j].phone
                 /\ users[i].id # users[j].id

C4_DuplicateSignup ==
    [][ /\ UniqueUsers'
        /\ ( /\ last'.op = "signup"
             /\ Present(last'.form, "name") /\ Present(last'.form, "password")
             /\ Present(last'.form, "email") /\ Present(last'.form, "phone")
             /\ \E u \in Range(users) : \/ u.email = last'.form.email
                                        \/ u.phone = last'.form.phone )
           => /\ users' = users
              /\ last'.code = IF last'.fault = "none" THEN 409 ELSE 500 ]_vars

C4_Witness ==
    /\ last.op = "signup" /\ last.code = 409
    /\ \E u \in Range(users) : /\ u.phone = last.form.phone
                               /\ u.email # last.form.email

\* C5: create_booking, list_orders, cancel_order and update_status without an
\* active session yield 401 and change no table and no session; update_status
\* does so whether or not a status was supplied.
C5_NoSession401 ==
    [][ ( /\ last'.op \in {"booking", "get_orders", "cancel_order",
                           "update_order_status"}
          /\ ~HasUser(last'.client) )
        => /\ last'.code = 401
           /\ UNCHANGED <<users, nextUserId, bookings, nextBookingId,
                          feedbackRows, nextFeedbackId, shops, nextShopId,
                          session>> ]_vars

C5_Witness ==
    /\ last.op = "update_order_status" /\ last.code = 401
    /\ ~Present(last.form, "status")
    /\ ~HasUser(last.client)
    /\ \E b \in Range(bookings) : b.id = last.id

\* C6: after create_booking with form F succeeds in a session of user U, the
\* list U gets from list_orders starts with the new booking: F's fields, owner
\* U, status "Pending" and an id larger than every id assigned before; the
\* rest of the list is what it was.
C6_RoundTrip ==
    [][ \A c \in Clients :
        (last'.op = "booking" /\ last'.code = 201 /\ last'.client = c) =>
        /\ HasUser(c)
        /\ LET uid == SessionUser(c).id
               F == last'.form
               before == SelectOrders(uid)
               after == OrdersOf(bookings', uid)
           IN  /\ Len(after) = Len(before) + 1
               /\ Tail(after) = before
               /\ Head(after) =
                    [id |-> Head(after).id, user_id |-> uid,
                     name |-> Get(F, "name"), phone |-> Get(F, "phone"),
                     email |-> Get(F, "email"), car_type |-> Get(F, "carType"),
                     service_type |-> Get(F, "serviceType"),
                     date |-> Get(F, "date"), time |-> Get(F, "time"),
                     address |-> Get(F, "address"), status |-> "Pending"]
               /\ Head(after).id >= nextBookingId
               /\ \A b \in Range(bookings) : b.id < Head(after).id ]_vars

C6_Witness ==
    /\ last.op = "booking" /\ last.code = 201
    /\ Len(SelectOrders(LastUserId)) >= 2
    /\ last.form.carType = "SUV"

\* C7: neither the session nor the user record returned by signin and by
\* check_session holds the stored password hash.
C7_NoPasswordInSession ==
    /\ \A c \in Clients : HasUser(c) => "password" \notin DOMAIN SessionUser(c)
    /\ \A i \in 1..Len(last.user) : "password" \notin DOMAIN last.user[i]

\* C8: list_feedback returns the min(10, n) most recently inserted of the n
\* stored entries, most recently inserted first.
C8_FeedbackNewestTen ==
    (last.op = "feedback_get" /\ last.code = 200) =>
        LET n == Len(feedbackRows) IN
        /\ Len(last.rows) <= 10
        /\ Len(last.rows) = IF n < 10 THEN n ELSE 10
        /\ \A i \in 1..Len(last.rows) : last.rows[i] = feedbackRows[n - i + 1]

C8_Witness ==
    /\ last.op = "feedback_get" /\ last.code = 200
    /\ Len(feedbackRows) > 10

\* C9: no finished request leaves its database handle unreleased.
C9_HandleReleased == last.handle # "open"

\* C10: update_status(id, s) by the owner of booking id with a non-empty s
\* returns 200 (500 if the store fails) and sets the status of exactly that
\* booking to s, nothing else changing; with an empty or missing s it returns
\* 400 and changes nothing.
C10_UpdateFrame ==
    [][ ( /\ last'.op = "update_order_status"
          /\ HasUser(last'.client)
          /\ OwnedBy(last'.id, SessionUser(last'.client).id) )
        => /\ UNCHANGED <<users, nextUserId, nextBookingId, feedbackRows,
                          nextFeedbackId, shops, nextShopId, session>>
           /\ IF ~Present(last'.form, "status")
              THEN last'.code = 400 /\ bookings' = bookings
              ELSE IF last'.fault # "none"
              THEN last'.code = 500 /\ bookings' = bookings
              ELSE /\ last'.code = 200
                   /\ bookings' =
                        [i \in 1..Len(bookings) |->
                           IF bookings[i].id = last'.id
                           THEN [bookings[i] EXCEPT !.status = last'.form.status]
                           ELSE bookings[i]] ]_vars

C10_Witness ==
    /\ last.op = "update_order_status" /\ last.code = 200
    /\ \E b \in Range(bookings) : b.id = last.id /\ b.status = "Done"
    /\ \E b \in Range(bookings) :
          b.id # last.id /\ b.user_id = LastUserId /\ b.status = "Pending"

====
